---- MODULE Spec2Model ----
(***************************************************************************)
(* Model of cf_dns_sync (src/src/unending_process.rs): the startup        *)
(* (check_for_root, get_config), the reconciliation of the fetched DNS     *)
(* record list with the local one (update_dns_list) and the unending sync  *)
(* loop (process).                                                         *)
(*                                                                         *)
(* Program positions (pc):                                                 *)
(*   "start"     process, check_for_root is about to run                   *)
(*   "load"      get_config, the configuration file is about to be read    *)
(*   "credentials" the prompts for email, zone id and API key are waiting  *)
(*   "fetch"     update_dns_list, the list request is about to be sent     *)
(*   "convert"   update_dns_list, get_dns_record_list returned Ok(body)     *)
(*   "prompt"    update_dns_list, the MultiSelect prompt is waiting        *)
(*   "loop_top"  process, top of the loop                                  *)
(*   "resolve"   process, public_ip::addr() is pending                     *)
(*   "for"       process, inside (or at the end of) the record loop        *)
(*   "panicked"  the process died in a panic!                              *)
(*   "exited"    the process called process::exit                          *)
(* stop names the line that ended the process ("" while it runs).          *)
(*                                                                         *)
(* Option<bool> is "None" / "SomeTrue" / "SomeFalse".                      *)
(* response is the answer to the last PATCH request of the iteration.      *)
(*                                                                         *)
(* Specifications:                                                         *)
(*   Spec       from the call of update_dns_list in get_config (line 503), *)
(*              with a complete configuration, through the sync loop       *)
(*   StartSpec  from the entry of process(): check_for_root and the whole  *)
(*              of get_config, with small stored lists, then as Spec       *)
(*   LiveSpec   the loop of process() alone, with weak fairness            *)
(***************************************************************************)
EXTENDS Integers, Sequences, FiniteSets, TLC

VARIABLES pc, terminal, config, file, result, new_dns_records,
          new_record_references, wait_on_startup, ip, failures,
          records_changed_successfully, idx,
          requests, summary, slept, reconciled, log, stop, response

vars == <<pc, terminal, config, file, result, new_dns_records,
          new_record_references, wait_on_startup, ip, failures,
          records_changed_successfully, idx,
          requests, summary, slept, reconciled, log, stop, response>>

(* ---------------------------- bounds ----------------------------------- *)

\* longest record list, stored or fetched
MaxRecords == 2
\* the count of the reconciliations saturates here
MaxCount == 2

(* ---------------------------- values ----------------------------------- *)

Ids == {"a", "b", "c"}
\* "c1" is also the content the stored records have: the address they
\* already point to
Ips == {"c1", "ip2"}
NoIp == "none"
\* 16777217 = 2^24 + 1 is the first u32 that `as f32` rounds
PollChoices == {300, 16777217}

\* (name, content) of the records the provider can return
NameContents == {<<"n1", "c1">>, <<"n2", "c2">>}

Min(a, b) == IF a < b THEN a ELSE b

SetMax(S) == CHOOSE x \in S : \A y \in S : y <= x

RECURSIVE Pow2(_)
Pow2(n) == IF n = 0 THEN 1 ELSE 2 * Pow2(n - 1)

(* ------------------------ JSON values ---------------------------------- *)

\* A field of an element of the provider's result array: absent, a JSON
\* string (q, rendered between quotes) or another JSON literal (number,
\* boolean, null).  t is the text without the quotes; the ttl's text is a
\* sequence of characters so that it can be parsed.
Missing == [present |-> FALSE, q |-> FALSE, t |-> ""]
JStr(t) == [present |-> TRUE, q |-> TRUE, t |-> t]
JLit(t) == [present |-> TRUE, q |-> FALSE, t |-> t]
MissingTtl == [present |-> FALSE, q |-> FALSE, t |-> <<>>]

\* Value::to_string().replace("\"", ""): the JSON text with every quote
\* removed, so a string and a literal of the same text become equal
StripQuotes(v) == v.t

DigitVal == [c \in {"0", "1", "2", "3", "4", "5", "6", "7", "8", "9"} |->
               CASE c = "0" -> 0 [] c = "1" -> 1 [] c = "2" -> 2 [] c = "3" -> 3
                 [] c = "4" -> 4 [] c = "5" -> 5 [] c = "6" -> 6 [] c = "7" -> 7
                 [] c = "8" -> 8 [] c = "9" -> 9]

I32Max == 2147483647

\* digits accumulated with checked arithmetic, as i32::from_str does;
\* the magnitude is accumulated on the side of the sign
RECURSIVE ParseDigits(_, _, _)
ParseDigits(chars, acc, neg) ==
    IF chars = <<>> THEN [ok |-> TRUE, val |-> acc]
    ELSE IF Head(chars) \notin DOMAIN DigitVal THEN [ok |-> FALSE, val |-> 0]
    ELSE LET d == DigitVal[Head(chars)]
         IN  IF neg
             THEN LET low == 0 - I32Max - 1 + d
                      ceil == (low \div 10) + (IF low % 10 = 0 THEN 0 ELSE 1)
                  IN  IF acc < ceil
                      THEN [ok |-> FALSE, val |-> 0]
                      ELSE ParseDigits(Tail(chars), acc * 10 - d, neg)
             ELSE IF acc > (I32Max - d) \div 10
                  THEN [ok |-> FALSE, val |-> 0]
                  ELSE ParseDigits(Tail(chars), acc * 10 + d, neg)

\* str::parse::<i32>(): optional sign, at least one digit, no overflow
ParseI32(chars) ==
    IF chars = <<>> THEN [ok |-> FALSE, val |-> 0]
    ELSE IF Head(chars) \in {"+", "-"}
         THEN IF Tail(chars) = <<>> THEN [ok |-> FALSE, val |-> 0]
              ELSE ParseDigits(Tail(chars), 0, Head(chars) = "-")
         ELSE ParseDigits(chars, 0, FALSE)

(* ------------------- the provider's responses -------------------------- *)

Elem(id, name, type, content, proxied, ttl) ==
    [id |-> id, name |-> name, type |-> type, content |-> content,
     proxied |-> proxied, ttl |-> ttl]

TtlAuto == [present |-> TRUE, q |-> FALSE, t |-> <<"1">>]

\* a well-formed element of type A
GoodA(id, nc) ==
    Elem(JStr(id), JStr(nc[1]), JStr("A"), JStr(nc[2]), JLit("true"), TtlAuto)

\* a well-formed element of another type
GoodOther(id) ==
    Elem(JStr(id), JStr("n1"), JStr("CNAME"), JStr("c1"), JLit("true"), TtlAuto)

\* elements that miss a field or carry an unusual one, all with id "c"
OddElems ==
    { [GoodA("c", <<"n1", "c1">>) EXCEPT ![f] = Missing] :
          f \in {"id", "name", "type", "content", "proxied"} }
    \cup { [GoodA("c", <<"n1", "c1">>) EXCEPT !.ttl = MissingTtl],
           [GoodA("c", <<"n1", "c1">>) EXCEPT
               !.ttl = [present |-> TRUE, q |-> TRUE, t |-> <<"a", "u", "t", "o">>]],
           [GoodA("c", <<"n1", "c1">>) EXCEPT
               !.ttl = [present |-> TRUE, q |-> FALSE,
                        t |-> <<"2", "1", "4", "7", "4", "8", "3", "6", "4", "8">>]],
           [GoodA("c", <<"n1", "c1">>) EXCEPT
               !.ttl = [present |-> TRUE, q |-> TRUE, t |-> <<"-", "1", "2", "0">>]],
           [GoodA("c", <<"n1", "c1">>) EXCEPT !.proxied = JStr("yes")],
           [GoodOther("c") EXCEPT !.ttl = MissingTtl],
           [GoodOther("c") EXCEPT !.name = Missing] }

\* the record "a" is the one whose name and content change at the provider
ElemKinds ==
    { GoodA(i, <<"n1", "c1">>) : i \in Ids }
    \cup { GoodA("a", nc) : nc \in NameContents }
    \cup { GoodOther(i) : i \in Ids }
    \cup OddElems

\* the provider assigns every record its own id
DistinctIds(s) ==
    \A i, j \in DOMAIN s :
        (i # j /\ s[i].id.present /\ s[j].id.present) => s[i].id.t # s[j].id.t

Arrays ==
    { s \in UNION { [1..n -> ElemKinds] : n \in 0..MaxRecords } : DistinctIds(s) }

\* What get_dns_record_list hands over as Ok(body): a text that holds
\* "success": true.  It is not JSON, or JSON without "result", or JSON whose
\* "result" is not an array, or JSON with a result array.
NoBody == [kind |-> "none", array |-> <<>>]
Bodies ==
    { [kind |-> k, array |-> <<>>] : k \in {"not_json", "no_result", "not_array"} }
    \cup { [kind |-> "array", array |-> a] : a \in Arrays }

(* --------------------------- records ----------------------------------- *)

DNSRecord(id, name, content, proxy_status, ttl, sync) ==
    [record_type |-> "A", name |-> name, content |-> content,
     proxy_status |-> proxy_status, ttl |-> ttl, id |-> id, sync |-> sync]

SyncValues == {"None", "SomeTrue", "SomeFalse"}

\* stored lists: records of earlier fetches, ascending ids
RECURSIVE StoredLists(_)
StoredLists(n) ==
    IF n = 0 THEN {<<>>}
    ELSE LET shorter == StoredLists(n - 1)
         IN  shorter \cup
             { Append(s, DNSRecord(i, "n1", "c1", "SomeTrue", 1, y)) :
                 s \in { t \in shorter : Len(t) = n - 1 },
                 i \in Ids, y \in SyncValues }

IdRank == [i \in Ids |-> CASE i = "a" -> 1 [] i = "b" -> 2 [] i = "c" -> 3]

Ascending(s) == \A i, j \in DOMAIN s : i < j => IdRank[s[i].id] < IdRank[s[j].id]

\* the lists a configuration can hold when the process starts
InitialLists == { s \in StoredLists(MaxRecords) : Ascending(s) }

(* --------------------------- credentials ------------------------------- *)

\* Option<AuthenticationConfig>: None is present = FALSE.  The three
\* fields are plain strings.
Credentials(email, api_key, zone_id) ==
    [present |-> TRUE, email |-> email, api_key |-> api_key, zone_id |-> zone_id]

NoAuthentication ==
    [present |-> FALSE, email |-> "", api_key |-> "", zone_id |-> ""]

\* credentials found in a stored configuration: any strings, the empty one
\* included
StoredCredentials ==
    {Credentials("me@x.org", "key", "zone"), Credentials("", "key", "zone")}

\* what the three Input prompts of AuthenticationConfig::default return:
\* an Input does not accept an empty line
EnteredCredentials == {Credentials("me@x.org", "key", "zone")}

(* ------------------ convert_val_to_dns_record -------------------------- *)

ProxyStatus(text) ==
    CASE text = "true" -> "SomeTrue"
      [] text = "false" -> "SomeFalse"
      [] OTHER -> "None"

\* any type is kept
KeepsAnyType(record_type) == TRUE

\* lines 990-993: only the type "A" goes on, any other returns Ok(None)
KeepsType(record_type) == record_type = "A"

\* The fields are evaluated in the order of the struct literal: name, id,
\* type, content, proxied, ttl.  tag is "Err", "None" (Ok(None)) or "Some";
\* recs holds the record of Ok(Some(record)).
convert_val_to_dns_record(val) ==
    IF ~val.name.present
    THEN [tag |-> "Err", recs |-> <<>>, msg |-> "Getting name from dns record failed"]
    ELSE IF ~val.id.present
    THEN [tag |-> "Err", recs |-> <<>>, msg |-> "Getting id from dns record failed"]
    ELSE IF ~val.type.present
    THEN [tag |-> "Err", recs |-> <<>>, msg |-> "Getting type from dns record failed"]
    ELSE IF ~KeepsType(StripQuotes(val.type))
    THEN [tag |-> "None", recs |-> <<>>, msg |-> ""]
    ELSE IF ~val.content.present
    THEN [tag |-> "Err", recs |-> <<>>, msg |-> "Getting content from dns record failed"]
    ELSE IF ~val.proxied.present
    THEN [tag |-> "Err", recs |-> <<>>,
          msg |-> "Getting proxy status from dns record failed"]
    ELSE IF ~val.ttl.present
    THEN [tag |-> "Err", recs |-> <<>>, msg |-> "Getting content from dns record failed"]
    ELSE IF ~ParseI32(StripQuotes(val.ttl)).ok
    THEN [tag |-> "Err", recs |-> <<>>, msg |-> "Failed to convert TTL to number"]
    ELSE [tag |-> "Some", msg |-> "",
          recs |-> << [DNSRecord(StripQuotes(val.id), StripQuotes(val.name),
                                 StripQuotes(val.content),
                                 ProxyStatus(StripQuotes(val.proxied)),
                                 ParseI32(StripQuotes(val.ttl)).val, "None")
                          EXCEPT !.record_type = StripQuotes(val.type)] >>]

(* ------------------------ update_dns_list ------------------------------ *)

\* lines 792-802: Ok(Some(record)) is pushed; Ok(None) pushes nothing;
\* Err(()) continues the `for val in array`, so it pushes nothing either
RECURSIVE ConvertArray(_)
ConvertArray(array) ==
    IF array = <<>> THEN <<>>
    ELSE convert_val_to_dns_record(Head(array)).recs \o ConvertArray(Tail(array))

\* the line that is logged last while the array is converted
RECURSIVE ConvertLog(_, _)
ConvertLog(array, line) ==
    IF array = <<>> THEN line
    ELSE ConvertLog(Tail(array),
                    IF convert_val_to_dns_record(Head(array)).tag = "Err"
                    THEN [msg |-> convert_val_to_dns_record(Head(array)).msg,
                          level |-> "Error"]
                    ELSE line)

\* the ids are not compared: every old record with a decision counts
DecidedAny(old, id) ==
    { j \in DOMAIN old : old[j].sync # "None" }

\* lines 806-813: the old records of the same id that have a decision
Decided(old, id) ==
    { j \in DOMAIN old : old[j].id = id /\ old[j].sync # "None" }

\* the decision is looked up by name instead of by id
AnnotateByName(new, old) ==
    [i \in DOMAIN new |->
        LET same == { j \in DOMAIN old : old[j].name = new[i].name
                                         /\ old[j].sync # "None" }
        IN  IF same = {} THEN new[i]
            ELSE [new[i] EXCEPT !.sync = old[SetMax(same)].sync]]

\* lines 804-817: the last old record of the same id with a decision gives
\* its decision to the new record
Annotate(new, old) ==
    [i \in DOMAIN new |->
        IF Decided(old, new[i].id) = {} THEN new[i]
        ELSE [new[i] EXCEPT !.sync = old[SetMax(Decided(old, new[i].id))].sync]]

RECURSIVE IndicesFrom(_, _, _)
IndicesFrom(i, new, old) ==
    IF i > Len(new) THEN <<>>
    ELSE (IF Decided(old, new[i].id) = {} THEN <<i>> ELSE <<>>)
         \o IndicesFrom(i + 1, new, old)

\* lines 814-816: the indices of the new records without a decision
NewRecordReferences(new, old) == IndicesFrom(1, new, old)

\* every record but the chosen one becomes Some(false), referenced or not
ApplySelectionEverywhere(recs, refs, id) ==
    [i \in DOMAIN recs |->
        IF recs[i].id = id THEN [recs[i] EXCEPT !.sync = "SomeTrue"]
        ELSE [recs[i] EXCEPT !.sync = "SomeFalse"]]

\* lines 843-849, for one selection: the chosen id becomes Some(true), the
\* other references become Some(false) if they are still None
ApplySelection(recs, refs, id) ==
    [i \in DOMAIN recs |->
        IF \E k \in DOMAIN refs : refs[k] = i
        THEN IF recs[i].id = id THEN [recs[i] EXCEPT !.sync = "SomeTrue"]
             ELSE IF recs[i].sync = "None" THEN [recs[i] EXCEPT !.sync = "SomeFalse"]
             ELSE recs[i]
        ELSE recs[i]]

\* lines 842-850: `for selection in selections`; ids[k] is the id of the
\* k-th reference (create_selection_list)
RECURSIVE ApplySelections(_, _, _)
ApplySelections(recs, refs, selections) ==
    IF selections = <<>> THEN recs
    ELSE ApplySelections(ApplySelection(recs, refs, recs[refs[Head(selections)]].id),
                         refs, Tail(selections))

\* MultiSelect::interact returns the checked indices in ascending order
RECURSIVE AscendingSeq(_, _, _)
AscendingSeq(S, k, n) ==
    IF k > n THEN <<>>
    ELSE (IF k \in S THEN <<k>> ELSE <<>>) \o AscendingSeq(S, k + 1, n)

SelectionsOf(n) == { AscendingSeq(S, 1, n) : S \in SUBSET (1..n) }

(* --------------------------- save_to_json ------------------------------ *)

\* None is written as false
JsonNoNull(o) == IF o = "SomeTrue" THEN "true" ELSE "false"

\* serde's rendering of an Option<bool>
JsonOption(o) ==
    CASE o = "SomeTrue" -> "true" [] o = "SomeFalse" -> "false" [] OTHER -> "null"

\* the JSON array of the records
JsonRecords(list) ==
    [i \in DOMAIN list |-> [list[i] EXCEPT !.proxy_status = JsonOption(@),
                                           !.sync = JsonOption(@)]]

\* A member of the stored JSON object is there (present) with its value v,
\* or it is absent.  serde_json::to_string of a Config writes all of them.
ToJson(cfg) ==
    [seconds_to_wait_per_restart |->
        [present |-> TRUE, v |-> cfg.seconds_to_wait_per_restart],
     authentication |-> cfg.authentication,
     dns_config |-> [present |-> TRUE, v |-> JsonRecords(cfg.dns_config)]]

\* the configuration before anything is loaded
BlankConfig ==
    [seconds_to_wait_per_restart |-> 0, authentication |-> NoAuthentication,
     dns_config |-> <<>>]

NoFile == [state |-> "none", json |-> ToJson(BlankConfig)]
PartialFile == [NoFile EXCEPT !.state = "partial"]

\* what the file system can answer to save_to_json
SaveOutcomes(f) ==
    {"ok", "create_failed", "write_failed"}
    \cup (IF f.state = "none" THEN {} ELSE {"remove_failed"})

\* lines 144-164 with write_to_file (1176-1239): the old file is removed
\* first (panic if that fails), then the file is created (Err if that
\* fails) and written (a failed write is printed, and Ok is returned)
save_to_json(cfg, f, outcome) ==
    CASE outcome = "remove_failed" -> [ret |-> "panic", file |-> f]
      [] outcome = "create_failed" -> [ret |-> "Err", file |-> NoFile]
      [] outcome = "write_failed" -> [ret |-> "Ok", file |-> PartialFile]
      [] OTHER -> [ret |-> "Ok", file |-> [state |-> "full", json |-> ToJson(cfg)]]

(* ------------------------------ set_ip --------------------------------- *)

\* The answer to the PATCH request of set_ip: the request went through
\* (transport), the body could be read as text (readable), the text holds
\* "success": true (success).  Without an answer there is no body, and a
\* body that cannot be read has no text.
PatchResponses ==
    {[transport |-> FALSE, readable |-> FALSE, success |-> FALSE],
     [transport |-> TRUE, readable |-> FALSE, success |-> FALSE],
     [transport |-> TRUE, readable |-> TRUE, success |-> FALSE],
     [transport |-> TRUE, readable |-> TRUE, success |-> TRUE]}

\* no PATCH request was sent in this iteration
NoResponse == [transport |-> FALSE, readable |-> FALSE, success |-> TRUE]

\* every body that can be read counts as a success
set_ip_any_body(resp) ==
    IF ~resp.transport THEN "UReqRequstFailed"
    ELSE IF ~resp.readable THEN "ConvertIntoString"
    ELSE "Ok"

\* lines 1113-1143: the result of set_ip
set_ip(resp) ==
    IF ~resp.transport THEN "UReqRequstFailed"
    ELSE IF ~resp.readable THEN "ConvertIntoString"
    ELSE IF ~resp.success THEN "UnsuccessfullCloudflareRequest"
    ELSE "Ok"

(* ----------------------------- logging --------------------------------- *)

Line(msg, level) == [msg |-> msg, level |-> level]
NoLine == Line("", "Log")

NoSummary == [msg |-> "", s |-> 0, t |-> 0]

Bump(n) == Min(n + 1, MaxCount)

(* ----------------------------- Init ------------------------------------ *)

\* get_config has loaded and completed the configuration and is about to
\* call update_dns_list (line 503)
Init ==
    /\ pc = "fetch"
    /\ terminal \in BOOLEAN
    /\ config \in [seconds_to_wait_per_restart : PollChoices,
                   authentication : EnteredCredentials,
                   dns_config : InitialLists]
    /\ file = [state |-> "full", json |-> ToJson(config)]
    /\ result = NoBody
    /\ new_dns_records = <<>>
    /\ new_record_references = <<>>
    /\ wait_on_startup = TRUE
    /\ ip = NoIp
    /\ failures = FALSE
    /\ records_changed_successfully = 0
    /\ idx = 1
    /\ requests = <<>>
    /\ summary = NoSummary
    /\ slept = 0
    /\ reconciled = 0
    /\ log = NoLine
    /\ stop = ""
    /\ response = NoResponse

loopVars == <<wait_on_startup, ip, failures, records_changed_successfully, idx,
              requests, summary, slept, response>>

(* --------------- update_dns_list: the fetch (lines 748-791) ------------ *)

\* get_dns_record_list returns Err(()): the request failed, the body could
\* not be read, or it does not hold "success": true.  `continue`.
GetDnsRecordListErr ==
    /\ pc = "fetch"
    /\ \E reason \in {"transport", "into_string", "no_success"} :
          log' = CASE reason = "no_success" ->
                        Line("The cloudflare request was unsuccessful", "Warn")
                   [] OTHER -> Line("Retrying...", "Error")
    /\ UNCHANGED <<pc, terminal, config, file, result, new_dns_records,
                   new_record_references, reconciled, stop>>
    /\ UNCHANGED loopVars

\* get_dns_record_list returns Ok(body)
GetDnsRecordListOk ==
    /\ pc = "fetch"
    /\ \E body \in Bodies : result' = body
    /\ pc' = "convert"
    /\ log' = Line("Successfully obtained DNS records", "Log")
    /\ UNCHANGED <<terminal, config, file, new_dns_records,
                   new_record_references, reconciled, stop>>
    /\ UNCHANGED loopVars

\* `break` in place of `continue`: update_dns_list returns
RetryBreaks(msg) ==
    /\ pc' = "loop_top"
    /\ result' = NoBody
    /\ log' = Line(msg, "Error")
    /\ UNCHANGED <<terminal, config, file, new_dns_records,
                   new_record_references, reconciled, stop>>
    /\ UNCHANGED loopVars

\* one of the three `continue`s of lines 755-791
Retry(msg) ==
    /\ pc' = "fetch"
    /\ result' = NoBody
    /\ log' = Line(msg, "Error")
    /\ UNCHANGED <<terminal, config, file, new_dns_records,
                   new_record_references, reconciled, stop>>
    /\ UNCHANGED loopVars

JsonFailed ==
    /\ pc = "convert"
    /\ result.kind = "not_json"
    /\ Retry("Converting the cloudflare result to json failed")

NoResult ==
    /\ pc = "convert"
    /\ result.kind = "no_result"
    /\ Retry("Getting result from response failed")

\* a result that is no array is taken as the empty list
NotArrayAsEmpty ==
    /\ pc = "convert"
    /\ result.kind = "not_array"
    /\ \E outcome \in SaveOutcomes(file) :
          /\ config' = [config EXCEPT !.dns_config = <<>>]
          /\ file' = save_to_json(config', file, outcome).file
    /\ reconciled' = Bump(reconciled)
    /\ pc' = "loop_top"
    /\ result' = NoBody
    /\ log' = Line("Saved config successfully", "Log")
    /\ UNCHANGED <<terminal, new_dns_records, new_record_references, stop>>
    /\ UNCHANGED loopVars

NotArray ==
    /\ pc = "convert"
    /\ result.kind = "not_array"
    /\ Retry("Converting result to array failed")

(* ------- update_dns_list: merge, prompt and save (lines 792-865) ------- *)

\* the old records that were not fetched are kept behind the new ones
KeepUnfetched(old, new) ==
    new \o SelectSeq(old, LAMBDA r : \A i \in DOMAIN new : new[i].id # r.id)

\* line 852: `config.dns_config = new_dns_records`
ReplacedList(old, new) == new

\* the configuration is saved a second time after a save that returned
ReplaceAndSaveTwice(new, line) ==
    \E first \in SaveOutcomes(file) :
        LET cfg == [config EXCEPT !.dns_config = ReplacedList(config.dns_config, new)]
            once == save_to_json(cfg, file, first)
        IN  \E outcome \in SaveOutcomes(once.file) :
              LET saved == IF once.ret = "panic" THEN once
                           ELSE save_to_json(cfg, once.file, outcome)
              IN  /\ config' = cfg
                  /\ file' = saved.file
                  /\ reconciled' = Bump(reconciled)
                  /\ IF saved.ret = "panic"
                     THEN /\ pc' = "panicked"
                          /\ stop' = "Failed to delete old config file"
                          /\ log' = line
                          /\ UNCHANGED <<result, new_dns_records, new_record_references>>
                     ELSE /\ pc' = "loop_top"
                          /\ stop' = stop
                          /\ result' = NoBody
                          /\ new_dns_records' = <<>>
                          /\ new_record_references' = <<>>
                          /\ log' = IF saved.ret = "Ok"
                                    THEN Line("Saved config successfully", "Log")
                                    ELSE Line("Failed to save config", "Warn")

\* lines 852-865: the list is replaced and the configuration is saved
ReplaceAndSave(new, line) ==
    \E outcome \in SaveOutcomes(file) :
        LET cfg == [config EXCEPT !.dns_config = ReplacedList(config.dns_config, new)]
            saved == save_to_json(cfg, file, outcome)
        IN  /\ config' = cfg
            /\ file' = saved.file
            /\ reconciled' = Bump(reconciled)
            /\ IF saved.ret = "panic"
               THEN /\ pc' = "panicked"
                    /\ stop' = "Failed to delete old config file"
                    /\ log' = line
                    /\ UNCHANGED <<result, new_dns_records, new_record_references>>
               ELSE /\ pc' = "loop_top"
                    /\ stop' = stop
                    /\ result' = NoBody
                    /\ new_dns_records' = <<>>
                    /\ new_record_references' = <<>>
                    /\ log' = IF saved.ret = "Ok"
                              THEN Line("Saved config successfully", "Log")
                              ELSE Line("Failed to save config", "Warn")

\* the prompt is shown whether there is a terminal or not
MergePromptAnywhere ==
    /\ pc = "convert"
    /\ result.kind = "array"
    /\ LET new == Annotate(ConvertArray(result.array), config.dns_config)
           refs == NewRecordReferences(ConvertArray(result.array), config.dns_config)
       IN  /\ Len(refs) > 0
           /\ new_dns_records' = new
           /\ new_record_references' = refs
    /\ pc' = "prompt"
    /\ log' = ConvertLog(result.array, log)
    /\ UNCHANGED <<terminal, config, file, result, reconciled, stop>>
    /\ UNCHANGED loopVars

\* lines 792-820 when the prompt is to be shown: there are records without
\* a decision and the process runs in a terminal
MergePrompt ==
    /\ pc = "convert"
    /\ result.kind = "array"
    /\ LET new == Annotate(ConvertArray(result.array), config.dns_config)
           refs == NewRecordReferences(ConvertArray(result.array), config.dns_config)
       IN  /\ Len(refs) > 0 /\ terminal
           /\ new_dns_records' = new
           /\ new_record_references' = refs
    /\ pc' = "prompt"
    /\ log' = ConvertLog(result.array, log)
    /\ UNCHANGED <<terminal, config, file, result, reconciled, stop>>
    /\ UNCHANGED loopVars

\* only the fetched records whose id the old list has are stored
MergeSaveKnownOnly ==
    /\ pc = "convert"
    /\ result.kind = "array"
    /\ LET new == Annotate(ConvertArray(result.array), config.dns_config)
           refs == NewRecordReferences(ConvertArray(result.array), config.dns_config)
       IN  /\ ~(Len(refs) > 0 /\ terminal)
           /\ ReplaceAndSave(SelectSeq(new, LAMBDA r :
                                 \E j \in DOMAIN config.dns_config :
                                     config.dns_config[j].id = r.id),
                             ConvertLog(result.array, log))
    /\ UNCHANGED terminal
    /\ UNCHANGED loopVars

\* lines 792-820 and 852-865 when no prompt is shown
MergeSave ==
    /\ pc = "convert"
    /\ result.kind = "array"
    /\ LET new == Annotate(ConvertArray(result.array), config.dns_config)
           refs == NewRecordReferences(ConvertArray(result.array), config.dns_config)
       IN  /\ ~(Len(refs) > 0 /\ terminal)
           /\ ReplaceAndSave(new, ConvertLog(result.array, log))
    /\ UNCHANGED terminal
    /\ UNCHANGED loopVars

\* lines 826-865: the user answers the prompt
PromptAnswered ==
    /\ pc = "prompt"
    /\ \E selections \in SelectionsOf(Len(new_record_references)) :
          ReplaceAndSave(ApplySelections(new_dns_records, new_record_references,
                                         selections), log)
    /\ UNCHANGED terminal
    /\ UNCHANGED loopVars

\* lines 833-840: the prompt fails
PromptFailed ==
    /\ pc = "prompt"
    /\ pc' = "panicked"
    /\ stop' = "Failed to select records"
    /\ log' = Line("Failed to select records", "Error")
    /\ UNCHANGED <<terminal, config, file, result, new_dns_records,
                   new_record_references, reconciled>>
    /\ UNCHANGED loopVars

(* --------------------- process: the sync loop -------------------------- *)

\* `seconds as f32`: the nearest f32 (24 bits of mantissa, ties to even)
AsF32(n) ==
    IF n < Pow2(24) THEN n
    ELSE LET e == CHOOSE k \in 24..30 : Pow2(k) <= n /\ n < 2 * Pow2(k)
             ulp == Pow2(e - 23)
             low == (n \div ulp) * ulp
             rest == n % ulp
         IN  IF 2 * rest < ulp THEN low
             ELSE IF 2 * rest > ulp THEN low + ulp
             ELSE IF (n \div ulp) % 2 = 0 THEN low ELSE low + ulp

\* lines 276-278: the duration handed to thread::sleep, in seconds
SleepSeconds(cfg) == AsF32(cfg.seconds_to_wait_per_restart)

regVars == <<terminal, config, file, result, new_dns_records,
             new_record_references, reconciled, stop>>

\* lines 265-266: the first iteration does not wait
FirstIteration ==
    /\ pc = "loop_top"
    /\ wait_on_startup
    /\ wait_on_startup' = FALSE
    /\ slept' = 0
    /\ pc' = "resolve"
    /\ requests' = <<>>
    /\ summary' = NoSummary
    /\ UNCHANGED <<ip, failures, records_changed_successfully, idx, log>>
    /\ UNCHANGED regVars
    /\ UNCHANGED response

\* the configuration is read again from the file after the sleep
SleepReloads ==
    /\ pc = "loop_top"
    /\ ~wait_on_startup
    /\ slept' = SleepSeconds(config)
    /\ log' = Line("Waiting seconds to restart...", "Log")
    /\ pc' = "resolve"
    /\ requests' = <<>>
    /\ summary' = NoSummary
    /\ config' = IF file.state = "full"
                 THEN [config EXCEPT !.dns_config =
                          [i \in DOMAIN file.json.dns_config.v |->
                              [file.json.dns_config.v[i] EXCEPT
                                  !.proxy_status = "SomeTrue",
                                  !.sync = IF @ = "true" THEN "SomeTrue"
                                           ELSE "SomeFalse"]]]
                 ELSE config
    /\ UNCHANGED <<wait_on_startup, ip, failures, records_changed_successfully, idx>>
    /\ UNCHANGED <<terminal, file, result, new_dns_records,
                   new_record_references, reconciled, stop>>
    /\ UNCHANGED response

\* lines 267-279: every other iteration sleeps
Sleep ==
    /\ pc = "loop_top"
    /\ ~wait_on_startup
    /\ slept' = SleepSeconds(config)
    /\ log' = Line("Waiting seconds to restart...", "Log")
    /\ pc' = "resolve"
    /\ requests' = <<>>
    /\ summary' = NoSummary
    /\ UNCHANGED <<wait_on_startup, ip, failures, records_changed_successfully, idx>>
    /\ UNCHANGED regVars
    /\ UNCHANGED response

\* the list is fetched again in every iteration
IpResolvedThenFetch ==
    /\ pc = "resolve"
    /\ \E addr \in Ips : ip' = addr
    /\ log' = Line("Successfully obtained public ip address", "Log")
    /\ failures' = FALSE
    /\ records_changed_successfully' = 0
    /\ idx' = 1
    /\ pc' = "fetch"
    /\ UNCHANGED <<wait_on_startup, requests, summary, slept>>
    /\ UNCHANGED regVars
    /\ UNCHANGED response

\* lines 280-288 and 299-300: the public IP is resolved
IpResolved ==
    /\ pc = "resolve"
    /\ \E addr \in Ips : ip' = addr
    /\ log' = Line("Successfully obtained public ip address", "Log")
    /\ failures' = FALSE
    /\ records_changed_successfully' = 0
    /\ idx' = 1
    /\ pc' = "for"
    /\ UNCHANGED <<wait_on_startup, requests, summary, slept>>
    /\ UNCHANGED regVars
    /\ UNCHANGED response

\* the resolution is retried at once, without the sleep
IpNotResolvedNoSleep ==
    /\ pc = "resolve"
    /\ ip' = NoIp
    /\ log' = Line("Retrying...", "Error")
    /\ pc' = "loop_top"
    /\ wait_on_startup' = TRUE
    /\ UNCHANGED <<failures, records_changed_successfully, idx,
                   requests, summary, slept>>
    /\ UNCHANGED regVars
    /\ UNCHANGED response

\* lines 289-297: no public IP; `continue`
IpNotResolved ==
    /\ pc = "resolve"
    /\ ip' = NoIp
    /\ log' = Line("Retrying...", "Error")
    /\ pc' = "loop_top"
    /\ UNCHANGED <<wait_on_startup, failures, records_changed_successfully, idx,
                   requests, summary, slept>>
    /\ UNCHANGED regVars
    /\ UNCHANGED response

\* every record that is not opted out
NotOptedOut(record) == record.sync # "SomeFalse"

\* line 302: `if let Some(true) = record.sync`
ShouldSync(record) == record.sync = "SomeTrue"

\* the errors of set_ip (lines 1100-1144)
SetIpErrors == {"UReqRequstFailed", "ConvertIntoString",
                "UnsuccessfullCloudflareRequest"}

\* the PATCH request of set_ip for the record at position i, and whether
\* set_ip returned Ok(())
Request(i, ok) ==
    [idx |-> i, id |-> config.dns_config[i].id, name |-> config.dns_config[i].name,
     content |-> ip, ok |-> ok]

\* an error ends the record loop
AfterErrorBreak(i, len) == len + 1

\* lines 318-351: every error arm ends in `continue`, which goes on with
\* the next record
AfterError(i, len) == i + 1

\* the same record is taken again after a success
SetIpOkAgain ==
    /\ pc = "for"
    /\ idx <= Len(config.dns_config)
    /\ ShouldSync(config.dns_config[idx])
    /\ requests' = Append(requests, Request(idx, TRUE))
    /\ records_changed_successfully' = records_changed_successfully + 1
    /\ log' = Line("Successfully set ip", "Log")
    /\ idx' = idx
    /\ \E resp \in PatchResponses : set_ip(resp) = "Ok" /\ response' = resp
    /\ UNCHANGED <<pc, wait_on_startup, ip, failures, summary, slept>>
    /\ UNCHANGED regVars

\* lines 303-317: the record is opted in and set_ip returns Ok(())
SetIpOk ==
    /\ pc = "for"
    /\ idx <= Len(config.dns_config)
    /\ ShouldSync(config.dns_config[idx])
    /\ requests' = Append(requests, Request(idx, TRUE))
    /\ records_changed_successfully' = records_changed_successfully + 1
    /\ log' = Line("Successfully set ip", "Log")
    /\ idx' = idx + 1
    /\ \E resp \in PatchResponses : set_ip(resp) = "Ok" /\ response' = resp
    /\ UNCHANGED <<pc, wait_on_startup, ip, failures, summary, slept>>
    /\ UNCHANGED regVars

\* the `continue` of an error arm ends the iteration: no summary
SetIpErrEndsIteration ==
    /\ pc = "for"
    /\ idx <= Len(config.dns_config)
    /\ ShouldSync(config.dns_config[idx])
    /\ requests' = Append(requests, Request(idx, FALSE))
    /\ \E resp \in PatchResponses :
          /\ set_ip(resp) \in SetIpErrors
          /\ response' = resp
          /\ log' = CASE set_ip(resp) = "ConvertIntoString" ->
                          Line("Failed to convert cloudflare's result into a string, retrying...", "Warn")
                      [] set_ip(resp) = "UnsuccessfullCloudflareRequest" ->
                          Line("The cloudflare request was unsuccessful", "Warn")
                      [] OTHER -> Line("Retrying...", "Error")
    /\ failures' = TRUE
    /\ idx' = AfterError(idx, Len(config.dns_config))
    /\ pc' = "loop_top"
    /\ UNCHANGED <<wait_on_startup, ip, records_changed_successfully, summary, slept>>
    /\ UNCHANGED regVars

\* lines 318-351: the record is opted in and set_ip returns an error
SetIpErr ==
    /\ pc = "for"
    /\ idx <= Len(config.dns_config)
    /\ ShouldSync(config.dns_config[idx])
    /\ requests' = Append(requests, Request(idx, FALSE))
    /\ \E resp \in PatchResponses :
          /\ set_ip(resp) \in SetIpErrors
          /\ response' = resp
          /\ log' = CASE set_ip(resp) = "ConvertIntoString" ->
                          Line("Failed to convert cloudflare's result into a string, retrying...", "Warn")
                      [] set_ip(resp) = "UnsuccessfullCloudflareRequest" ->
                          Line("The cloudflare request was unsuccessful", "Warn")
                      [] OTHER -> Line("Retrying...", "Error")
    /\ failures' = TRUE
    /\ idx' = AfterError(idx, Len(config.dns_config))
    /\ UNCHANGED <<pc, wait_on_startup, ip, records_changed_successfully, summary, slept>>
    /\ UNCHANGED regVars

\* a record is passed over, opted in or not
SkipAnyRecord ==
    /\ pc = "for"
    /\ idx <= Len(config.dns_config)
    /\ idx' = idx + 1
    /\ UNCHANGED <<pc, wait_on_startup, ip, failures, records_changed_successfully,
                   requests, summary, slept, log>>
    /\ UNCHANGED regVars
    /\ UNCHANGED response

\* line 302: the record is not opted in
SkipRecord ==
    /\ pc = "for"
    /\ idx <= Len(config.dns_config)
    /\ ~ShouldSync(config.dns_config[idx])
    /\ idx' = idx + 1
    /\ UNCHANGED <<pc, wait_on_startup, ip, failures, records_changed_successfully,
                   requests, summary, slept, log>>
    /\ UNCHANGED regVars
    /\ UNCHANGED response

\* the two failure branches exchanged
CycleSummarySwapped(failed, changed, len) ==
    IF failed
    THEN IF changed > 0
         THEN [msg |-> "All record changes failed", s |-> 0, t |-> 0]
         ELSE [msg |-> "Only {S} out of {T} records were changed successfully",
               s |-> changed, t |-> len]
    ELSE IF changed > 0
         THEN [msg |-> "All records changed successfully!", s |-> 0, t |-> 0]
         ELSE [msg |-> "No records were changed", s |-> 0, t |-> 0]

\* lines 355-387: the summary of the cycle
CycleSummary(failed, changed, len) ==
    IF failed
    THEN IF changed > 0
         THEN [msg |-> "Only {S} out of {T} records were changed successfully",
               s |-> changed, t |-> len]
         ELSE [msg |-> "All record changes failed", s |-> 0, t |-> 0]
    ELSE IF changed > 0
         THEN [msg |-> "All records changed successfully!", s |-> 0, t |-> 0]
         ELSE [msg |-> "No records were changed", s |-> 0, t |-> 0]

SummaryLevel(failed) == IF failed THEN "Warn" ELSE "Log"

\* the loop is left after the summary (`break` at the end of the body)
SummaryThenReturn ==
    /\ pc = "for"
    /\ idx > Len(config.dns_config)
    /\ summary' = CycleSummary(failures, records_changed_successfully,
                               Len(config.dns_config))
    /\ log' = Line(summary'.msg, SummaryLevel(failures))
    /\ pc' = "returned"
    /\ failures' = FALSE
    /\ records_changed_successfully' = 0
    /\ idx' = 1
    /\ UNCHANGED <<wait_on_startup, ip, requests, slept>>
    /\ UNCHANGED regVars
    /\ response' = NoResponse

\* lines 355-388: the record loop is over, the summary is logged; the
\* locals of the loop body (failures, records_changed_successfully, the
\* iterator) end with the iteration
Summary ==
    /\ pc = "for"
    /\ idx > Len(config.dns_config)
    /\ summary' = CycleSummary(failures, records_changed_successfully,
                               Len(config.dns_config))
    /\ log' = Line(summary'.msg, SummaryLevel(failures))
    /\ pc' = "loop_top"
    /\ failures' = FALSE
    /\ records_changed_successfully' = 0
    /\ idx' = 1
    /\ UNCHANGED <<wait_on_startup, ip, requests, slept>>
    /\ UNCHANGED regVars
    /\ response' = NoResponse

(* ------------------------- specification ------------------------------- *)

Next ==
    \/ GetDnsRecordListErr
    \/ GetDnsRecordListOk
    \/ JsonFailed
    \/ NoResult
    \/ NotArray
    \/ MergePrompt
    \/ MergeSave
    \/ PromptAnswered
    \/ PromptFailed
    \/ FirstIteration
    \/ Sleep
    \/ IpResolved
    \/ IpNotResolved
    \/ SetIpOk
    \/ SetIpErr
    \/ SkipRecord
    \/ Summary

Spec == Init /\ [][Next]_vars

\* the steps of the loop of process() (263-388)
LoopNext ==
    \/ FirstIteration
    \/ Sleep
    \/ IpResolved
    \/ IpNotResolved
    \/ SetIpOk
    \/ SetIpErr
    \/ SkipRecord
    \/ Summary

\* longest record list the loop is entered with
MaxLoopRecords == 3

\* the lists get_config can return
LoopLists == { s \in StoredLists(MaxLoopRecords) : Ascending(s) }

\* get_config has returned (line 262): the list was reconciled and saved
\* once, and the loop is about to be entered
LoopInit ==
    /\ pc = "loop_top"
    /\ terminal \in BOOLEAN
    /\ config \in [seconds_to_wait_per_restart : PollChoices,
                   authentication : EnteredCredentials,
                   dns_config : LoopLists]
    /\ file = [state |-> "full", json |-> ToJson(config)]
    /\ result = NoBody
    /\ new_dns_records = <<>>
    /\ new_record_references = <<>>
    /\ wait_on_startup = TRUE
    /\ ip = NoIp
    /\ failures = FALSE
    /\ records_changed_successfully = 0
    /\ idx = 1
    /\ requests = <<>>
    /\ summary = NoSummary
    /\ slept = 0
    /\ reconciled = 1
    /\ log = Line("Saved config successfully", "Log")
    /\ stop = ""
    /\ response = NoResponse

\* The loop runs in the one thread of the process, and each step of it
\* is a sleep or a blocking call: when every call returns, an enabled step
\* of the loop is taken.
LiveSpec == LoopInit /\ [][LoopNext]_vars /\ WF_vars(LoopNext)

(* ------------- startup: check_for_root and get_config ------------------ *)

\* longest record list of a configuration file found at startup
MaxStartRecords == 1

\* default_stwpr (line 27) and Config::default (line 134)
default_stwpr == 300

\* serde reads null (and an absent member) of an Option<bool> as None
FromJsonOption(t) ==
    CASE t = "true" -> "SomeTrue" [] t = "false" -> "SomeFalse" [] OTHER -> "None"

FromJsonRecords(list) ==
    [i \in DOMAIN list |-> [list[i] EXCEPT !.proxy_status = FromJsonOption(@),
                                           !.sync = FromJsonOption(@)]]

\* the defaults are applied only when the credentials are there
FromJsonDefaultsIfComplete(json) ==
    [seconds_to_wait_per_restart |->
        IF json.seconds_to_wait_per_restart.present
        THEN json.seconds_to_wait_per_restart.v
        ELSE IF json.authentication.present THEN default_stwpr ELSE 0,
     authentication |-> json.authentication,
     dns_config |->
        IF json.dns_config.present
        THEN FromJsonRecords(json.dns_config.v) ELSE <<>>]

\* serde_json::from_str::<IncompleteConfig> (line 570) with the defaults
\* of lines 18-34
FromJson(json) ==
    [seconds_to_wait_per_restart |->
        IF json.seconds_to_wait_per_restart.present
        THEN json.seconds_to_wait_per_restart.v ELSE default_stwpr,
     authentication |-> json.authentication,
     dns_config |->
        IF json.dns_config.present
        THEN FromJsonRecords(json.dns_config.v) ELSE <<>>]

\* the JSON objects a well-formed configuration file can hold
StoredJsons ==
    [seconds_to_wait_per_restart :
        {[present |-> FALSE, v |-> 0], [present |-> TRUE, v |-> default_stwpr]},
     authentication : {NoAuthentication} \cup StoredCredentials,
     dns_config :
        {[present |-> FALSE, v |-> <<>>]} \cup
        { [present |-> TRUE, v |-> JsonRecords(s)] :
            s \in { t \in StoredLists(MaxStartRecords) :
                      Ascending(t) /\ \A i \in DOMAIN t : t[i].id \in {"a", "b"} } }]

\* the configuration file the process finds: none, one that is not a
\* well-formed configuration, or a well-formed one
StartFiles ==
    {NoFile, PartialFile} \cup { [state |-> "full", json |-> j] : j \in StoredJsons }

\* process() is entered
StartInit ==
    /\ pc = "start"
    /\ terminal \in BOOLEAN
    /\ config = BlankConfig
    /\ file \in StartFiles
    /\ result = NoBody
    /\ new_dns_records = <<>>
    /\ new_record_references = <<>>
    /\ wait_on_startup = TRUE
    /\ ip = NoIp
    /\ failures = FALSE
    /\ records_changed_successfully = 0
    /\ idx = 1
    /\ requests = <<>>
    /\ summary = NoSummary
    /\ slept = 0
    /\ reconciled = 0
    /\ log = NoLine
    /\ stop = ""
    /\ response = NoResponse

\* the process ends: panic! or process::exit
Stops(how, reason) ==
    /\ pc' = how
    /\ stop' = reason
    /\ UNCHANGED <<terminal, config, file, result, new_dns_records,
                   new_record_references, reconciled, log>>
    /\ UNCHANGED loopVars

\* check_for_root (1081-1099) panics: no home directory, a home directory
\* that is not UTF-8, or the home directory /root
CheckForRootPanics ==
    /\ pc = "start"
    /\ \E reason \in {"Can't run program without home directory",
                       "Couldn't convert home directory to string",
                       "Don't run program as root. Run as some user."} :
          Stops("panicked", reason)

CheckForRootOk ==
    /\ pc = "start"
    /\ pc' = "load"
    /\ UNCHANGED <<terminal, config, file, result, new_dns_records,
                   new_record_references, reconciled, log, stop>>
    /\ UNCHANGED loopVars

\* get_incomplete_config: the path of the configuration cannot be had
\* (514-537, 549-552), or the file is there and cannot be read (560-568,
\* then `_ => panic!` of line 416)
GetConfigPanics ==
    /\ pc = "load"
    /\ \E reason \in {"Couldn't find cargo path", "Couldn't get config path"}
                      \cup (IF file.state = "none" THEN {} ELSE {"Failed to get config"}) :
          Stops("panicked", reason)

\* line 570-580: the file does not hold a configuration
ConfigMalformed ==
    /\ pc = "load"
    /\ file.state = "partial"
    /\ Stops("panicked", "It looks like your config.json is not formatted corectly")

\* lines 396-409: there is no file and the process runs in a terminal;
\* Config::default (132-143) asks for the credentials
NoConfigFilePrompts ==
    /\ pc = "load"
    /\ file.state = "none"
    /\ terminal
    /\ pc' = "credentials"
    /\ config' = [BlankConfig EXCEPT !.seconds_to_wait_per_restart = default_stwpr]
    /\ UNCHANGED <<terminal, file, result, new_dns_records,
                   new_record_references, reconciled, log, stop>>
    /\ UNCHANGED loopVars

\* lines 410-413: there is no file and no terminal
NoConfigFileExits ==
    /\ pc = "load"
    /\ file.state = "none"
    /\ ~terminal
    /\ Stops("exited", "There is no config file yet")

\* IncompleteConfig::is_complete (216-223)
is_complete(cfg) == cfg.authentication.present

\* lines 419-420 and 225-236: the file holds no credentials and the
\* process runs in a terminal; complete() asks for them
IncompletePrompts ==
    /\ pc = "load"
    /\ file.state = "full"
    /\ ~is_complete(FromJson(file.json))
    /\ terminal
    /\ pc' = "credentials"
    /\ config' = FromJson(file.json)
    /\ UNCHANGED <<terminal, file, result, new_dns_records,
                   new_record_references, reconciled, log, stop>>
    /\ UNCHANGED loopVars

\* complete() without the check of is_terminal: the run goes on with the
\* configuration as it was loaded
IncompleteGoesOn ==
    /\ pc = "load"
    /\ file.state = "full"
    /\ ~is_complete(FromJson(file.json))
    /\ ~terminal
    /\ pc' = "fetch"
    /\ config' = FromJson(file.json)
    /\ UNCHANGED <<terminal, file, result, new_dns_records,
                   new_record_references, reconciled, log, stop>>
    /\ UNCHANGED loopVars

\* lines 225-230: the file holds no credentials and there is no terminal
IncompleteExits ==
    /\ pc = "load"
    /\ file.state = "full"
    /\ ~is_complete(FromJson(file.json))
    /\ ~terminal
    /\ Stops("exited", "Couldn't setup config because process is not running in a terminal")

\* save_to_json called once for each answer of the file system in outs;
\* a panic ends the run of saves
RECURSIVE SaveAll(_, _, _)
SaveAll(cfg, f, outs) ==
    IF outs = <<>> THEN [ret |-> "Ok", file |-> f]
    ELSE IF Head(outs) \notin SaveOutcomes(f) THEN [ret |-> "impossible", file |-> f]
    ELSE LET first == save_to_json(cfg, f, Head(outs))
         IN  IF first.ret = "panic" THEN first
             ELSE SaveAll(cfg, first.file, Tail(outs))

\* the answers of the file system to n saves in a row
SaveRuns(n) == [1..n -> {"ok", "create_failed", "write_failed", "remove_failed"}]

\* The rest of get_config once the configuration is complete (419-503):
\* `saves` saves, then one more when the session number changed (487-495),
\* then the log line and update_dns_list.  A save that fails is reported
\* on the console only.
FinishStartup(cfg, saves) ==
    \E session_changed \in BOOLEAN :
    \E outs \in SaveRuns(saves + (IF session_changed THEN 1 ELSE 0)) :
        LET saved == SaveAll(cfg, file, outs)
        IN  /\ saved.ret # "impossible"
            /\ config' = cfg
            /\ file' = saved.file
            /\ IF saved.ret = "panic"
               THEN /\ pc' = "panicked"
                    /\ stop' = "Failed to delete old config file"
                    /\ log' = log
               ELSE /\ pc' = "fetch"
                    /\ stop' = stop
                    /\ log' = Line("Attempting to retrieve DNS records", "Log")
            /\ UNCHANGED <<terminal, result, new_dns_records,
                           new_record_references, reconciled>>
            /\ UNCHANGED loopVars

\* lines 437-472: the file holds credentials.  The configuration is saved
\* again unless the file holds exactly the text serde_json::to_string
\* gives (same_text).
LoadComplete ==
    /\ pc = "load"
    /\ file.state = "full"
    /\ is_complete(FromJson(file.json))
    /\ \E same_text \in BOOLEAN :
          FinishStartup(FromJson(file.json), IF same_text THEN 0 ELSE 1)

\* AuthenticationConfig::default (174-214) returns the credentials typed
\* in.  Without a file Config::default's result is saved (405) and then
\* saved again (455-456); with a file the completed one is saved (422).
CredentialsEntered ==
    /\ pc = "credentials"
    /\ \E entered \in EnteredCredentials :
          FinishStartup([config EXCEPT !.authentication = entered],
                        IF file.state = "none" THEN 2 ELSE 1)

\* lines 188-203: one of the three prompts fails
CredentialsFailed ==
    /\ pc = "credentials"
    /\ \E reason \in {"Couldn't get email", "Couldn't get zone id",
                       "Couldn't get API Key"} :
          Stops("panicked", reason)

StartNext ==
    \/ CheckForRootPanics
    \/ CheckForRootOk
    \/ GetConfigPanics
    \/ ConfigMalformed
    \/ NoConfigFilePrompts
    \/ NoConfigFileExits
    \/ IncompletePrompts
    \/ IncompleteExits
    \/ LoadComplete
    \/ CredentialsEntered
    \/ CredentialsFailed
    \/ Next

\* the process from its entry
StartSpec == StartInit /\ [][StartNext]_vars

(* ---------------- the configure command (main.rs) --------------------- *)

\* main.rs 391-393: every record is set to Some(false)
ResetAll(list) == [i \in DOMAIN list |-> [list[i] EXCEPT !.sync = "SomeFalse"]]

\* main.rs 394-402, for one selection: the record of the chosen id becomes
\* Some(true), a record that is still None becomes Some(false)
SelectOne(list, id) ==
    [i \in DOMAIN list |->
        IF list[i].id = id THEN [list[i] EXCEPT !.sync = "SomeTrue"]
        ELSE IF list[i].sync = "None" THEN [list[i] EXCEPT !.sync = "SomeFalse"]
        ELSE list[i]]

\* main.rs 394-403: `for selection in selections`; ids[k] is the id of the
\* k-th record of the list (create_selection_list, 867-905)
RECURSIVE SelectAll(_, _, _)
SelectAll(list, ids, selections) ==
    IF selections = <<>> THEN list
    ELSE SelectAll(SelectOne(list, ids[Head(selections)]), ids, Tail(selections))

\* main.rs 391-403: the list dns_config_selection stores for the checked
\* entries
SelectRecords(list, selections) ==
    SelectAll(ResetAll(list), [i \in DOMAIN list |-> list[i].id], selections)

\* The configurations a configure command, run by the user next to the
\* sync process, saves from the one it has loaded: the poll interval is
\* entered (main.rs 48-60) or the records are selected (380-406).
ConfigureEdits(cfg) ==
    { [cfg EXCEPT !.seconds_to_wait_per_restart = s] : s \in PollChoices }
    \cup { [cfg EXCEPT !.dns_config = SelectRecords(@, selections)] :
             selections \in SelectionsOf(Len(cfg.dns_config)) }

\* a configure command of another process loads the file and saves an
\* edited configuration (save_config, main.rs 429-441); the sync process
\* takes no step
ConfigureSaves ==
    /\ file.state = "full"
    /\ \E cfg \in ConfigureEdits(FromJson(file.json)),
          outcome \in {"ok", "create_failed", "write_failed"} :
          file' = save_to_json(cfg, file, outcome).file
    /\ file' # file
    /\ UNCHANGED <<pc, terminal, config, result, new_dns_records,
                   new_record_references, reconciled, log, stop>>
    /\ UNCHANGED loopVars

\* the loop of process(), with a configure command run next to it
EditedNext ==
    \/ LoopNext
    \/ ConfigureSaves

EditedSpec == LoopInit /\ [][EditedNext]_vars

\* the steps of update_dns_list (747-866)
UpdateDnsListNext ==
    \/ GetDnsRecordListErr
    \/ GetDnsRecordListOk
    \/ JsonFailed
    \/ NoResult
    \/ NotArray
    \/ MergePrompt
    \/ MergeSave
    \/ PromptAnswered
    \/ PromptFailed

\* the call of update_dns_list at line 503, with a list as short as the
\* stored lists of the startup; the poll interval plays no part in it
UpdateDnsListInit ==
    /\ Init
    /\ config.seconds_to_wait_per_restart = default_stwpr
    /\ Len(config.dns_config) <= MaxStartRecords

\* update_dns_list alone.  The thread keeps running: a step that can be
\* taken is taken (the requests and the prompt return), what they return is
\* not constrained.
UpdateDnsListSpec ==
    UpdateDnsListInit /\ [][UpdateDnsListNext]_vars /\ WF_vars(UpdateDnsListNext)

(* ------------- the configure command: its menus (main.rs) -------------- *)

\* update_dns_list has returned to its caller: get_config, or
\* dns_config_selection in the configure command (main.rs 381)
Returned == pc = "loop_top"

\* main.rs 19-21: get_config has returned as it does for the sync process,
\* the list reconciled and saved, and the main menu is shown
ConfigureInit ==
    /\ pc = "main_menu"
    /\ terminal \in BOOLEAN
    /\ config \in [seconds_to_wait_per_restart : {default_stwpr},
                   authentication : EnteredCredentials,
                   dns_config : { l \in InitialLists : Len(l) <= MaxStartRecords }]
    /\ file = [state |-> "full", json |-> ToJson(config)]
    /\ result = NoBody
    /\ new_dns_records = <<>>
    /\ new_record_references = <<>>
    /\ wait_on_startup = TRUE
    /\ ip = NoIp
    /\ failures = FALSE
    /\ records_changed_successfully = 0
    /\ idx = 1
    /\ requests = <<>>
    /\ summary = NoSummary
    /\ slept = 0
    /\ reconciled = 1
    /\ log = Line("Saved config successfully", "Log")
    /\ stop = ""
    /\ response = NoResponse

\* save_config (main.rs 429-441) of the edited configuration cfg, and the
\* main menu again after it: Err of save_to_json is a panic
SaveConfig(cfg, name) ==
    \E outcome \in SaveOutcomes(file) :
        LET saved == save_to_json(cfg, file, outcome)
        IN  /\ config' = cfg
            /\ file' = saved.file
            /\ CASE saved.ret = "Ok" ->
                      /\ pc' = "main_menu"
                      /\ stop' = stop
                      /\ log' = Line(name, "Log")
                 [] saved.ret = "Err" ->
                      /\ pc' = "panicked"
                      /\ stop' = "Failed to save config"
                      /\ log' = Line("Failed to save config", "Error")
                 [] OTHER ->
                      /\ pc' = "panicked"
                      /\ stop' = "Failed to delete old config file"
                      /\ log' = log
            /\ UNCHANGED <<terminal, result, new_dns_records, new_record_references,
                           reconciled>>
            /\ UNCHANGED loopVars

\* main.rs 48-60: "Seconds to wait per restart" is chosen and a number is
\* entered
MenuSeconds ==
    /\ pc = "main_menu"
    /\ \E seconds \in PollChoices :
          SaveConfig([config EXCEPT !.seconds_to_wait_per_restart = seconds],
                     "Successfully saved seconds to wait per restart to the config file!")

\* main.rs 64 and 381: "DNS Records" is chosen; dns_config_selection
\* begins with update_dns_list.  The menu is entered a bounded number of
\* times.
MenuDnsRecords ==
    /\ pc = "main_menu"
    /\ reconciled < MaxCount
    /\ pc' = "fetch"
    /\ UNCHANGED <<terminal, config, file, result, new_dns_records,
                   new_record_references, reconciled, log, stop>>
    /\ UNCHANGED loopVars

\* main.rs 65-67: "Exit" is chosen and main returns
MenuExit ==
    /\ pc = "main_menu"
    /\ Stops("exited", "Exit")

\* main.rs 41-47 and 383-390: a menu cannot be shown or read;
\* selection_fail (450-459) panics
SelectionFails ==
    /\ pc = "main_menu" \/ Returned
    /\ pc' = "panicked"
    /\ stop' = "Failed to select option"
    /\ log' = Line("Failed to select option", "Error")
    /\ UNCHANGED <<terminal, config, file, result, new_dns_records,
                   new_record_references, reconciled>>
    /\ UNCHANGED loopVars

\* main.rs 382-405: the menu of the records is answered, the choice is
\* stored in the list and saved, and the main menu is shown again
DnsSelected ==
    /\ Returned
    /\ \E selections \in SelectionsOf(Len(config.dns_config)) :
          SaveConfig([config EXCEPT !.dns_config = SelectRecords(@, selections)],
                     "Successfully saved the DNS records list to the config file!")

\* The configure command.  Its menus of the credentials and of the log
\* configuration (main.rs 72-379) do not touch the record list and are
\* left out.
ConfigureNext ==
    \/ MenuSeconds
    \/ MenuDnsRecords
    \/ MenuExit
    \/ SelectionFails
    \/ UpdateDnsListNext
    \/ DnsSelected

ConfigureSpec == ConfigureInit /\ [][ConfigureNext]_vars

(* ============================ properties =============================== *)

InReconciler == pc \in {"fetch", "convert", "prompt"}
InLoop == pc \in {"loop_top", "resolve", "for"}

\* the step that executes line 852
Replaces == reconciled' # reconciled

\* the ids of the records the fetch yields (type A, all fields usable)
FetchedIds(array) ==
    { StripQuotes(array[k].id) :
        k \in { n \in DOMAIN array : convert_val_to_dns_record(array[n]).tag = "Some" } }

\* the ids of all the elements of the response
ResponseIds(array) ==
    { StripQuotes(array[k].id) : k \in { n \in DOMAIN array : array[n].id.present } }

IdsOf(list) == { list[i].id : i \in DOMAIN list }

\* the ok requests of the current iteration
OkRequests == { k \in DOMAIN requests : requests[k].ok }

\* C1: a reconciliation keeps the decision Some(b) of every old record whose
\* id is fetched again: the reconciled list holds that id, with Some(b),
\* whatever the fetched name and content are, in a terminal or not.
C1_StickyById ==
    [][Replaces =>
        \A j \in DOMAIN config.dns_config :
            LET o == config.dns_config[j]
            IN  (o.sync # "None" /\ o.id \in FetchedIds(result.array))
                => /\ o.id \in IdsOf(config'.dns_config)
                   /\ \A i \in DOMAIN config'.dns_config :
                         config'.dns_config[i].id = o.id
                         => config'.dns_config[i].sync = o.sync]_vars

\* C1 witness: outside a terminal, record "a" came back under another name
\* and content and is still opted in
C1_Witness ==
    /\ pc = "loop_top"
    /\ ~terminal
    /\ \E i \in DOMAIN config.dns_config :
          /\ config.dns_config[i].id = "a"
          /\ config.dns_config[i].name = "n2"
          /\ config.dns_config[i].sync = "SomeTrue"

Malformed(e) ==
    \/ ~e.name.present \/ ~e.id.present \/ ~e.type.present
    \/ ~e.content.present \/ ~e.proxied.present \/ ~e.ttl.present
    \/ ~ParseI32(e.ttl.t).ok

\* C3 as stated: a response with a malformed element never replaces the
\* local list: the attempt fails as a whole.
C3_FetchFailFast ==
    [][(result.kind = "array"
        /\ \E k \in DOMAIN result.array : Malformed(result.array[k]))
       => ~Replaces]_vars

\* C4 as stated: after a reconciliation in a terminal every record of the
\* list has a decision, whatever the user selected.
C4_DecisionComplete ==
    (terminal /\ InLoop) =>
        \A i \in DOMAIN config.dns_config : config.dns_config[i].sync # "None"

\* C5: an old record whose id is not in the response is not in the list after
\* the reconciliation, whatever its sync value was.
C5_Pruning ==
    [][Replaces =>
        \A j \in DOMAIN config.dns_config :
            config.dns_config[j].id \notin ResponseIds(result.array)
            => config.dns_config[j].id \notin IdsOf(config'.dns_config)]_vars

\* C5 witness: the save panicked after line 852, so the file still shows the
\* old list: its opted-in record "b" is not in the response and not in the
\* new list
C5_Witness ==
    /\ pc = "panicked"
    /\ reconciled = 1
    /\ file.state = "full"
    /\ \E j \in DOMAIN file.json.dns_config.v :
          /\ file.json.dns_config.v[j].id = "b"
          /\ file.json.dns_config.v[j].sync = "true"
    /\ "b" \notin ResponseIds(result.array)
    /\ "b" \notin IdsOf(config.dns_config)
    /\ config.dns_config # <<>>

\* C6: every update request of a cycle is for a record whose sync is
\* Some(true).
C6_OnlyOptedIn ==
    \A k \in DOMAIN requests :
        /\ requests[k].idx \in DOMAIN config.dns_config
        /\ config.dns_config[requests[k].idx].id = requests[k].id
        /\ config.dns_config[requests[k].idx].sync = "SomeTrue"

\* C6 witness: a finished cycle sent one request although the list also
\* holds a record without a decision
C6_Witness ==
    /\ pc = "loop_top"
    /\ summary # NoSummary
    /\ Len(requests) = 1
    /\ \E i \in DOMAIN config.dns_config : config.dns_config[i].sync = "None"

\* a fetch attempt that fails: get_dns_record_list returns Err, or the body
\* is not JSON, has no result, or its result is no array
FailedAttempt ==
    \/ pc = "fetch" /\ pc' # "convert"
    \/ pc = "convert" /\ result.kind \in {"not_json", "no_result", "not_array"}

\* C7: a failed fetch attempt goes back to the fetch at once and changes
\* neither the list nor the file; before a fetch has succeeded nothing is
\* slept, no update request is sent and no summary is logged.
C7_NoUpdateOnUnknownTopology ==
    /\ [][FailedAttempt => (pc' = "fetch" /\ UNCHANGED <<config, file, slept>>)]_vars
    /\ [](reconciled = 0 =>
            (~InLoop /\ requests = <<>> /\ summary = NoSummary /\ slept = 0))

\* C7 witness: an attempt has failed and the fetch is about to be repeated,
\* with the list and the file as they were
C7_Witness ==
    /\ pc = "fetch"
    /\ log.msg = "Converting result to array failed"
    /\ reconciled = 0
    /\ file = [state |-> "full", json |-> ToJson(config)]
    /\ config.dns_config # <<>>

\* C8: inside the record loop every opted-in record before the iterator has
\* its request, also after failures, and a failure is recorded in `failures`;
\* at the summary every opted-in record of the list has been attempted.
C8_ContinueOnError ==
    /\ pc = "for" =>
          /\ { requests[k].idx : k \in DOMAIN requests }
                = { i \in DOMAIN config.dns_config :
                      i < idx /\ config.dns_config[i].sync = "SomeTrue" }
          /\ failures <=> (OkRequests # DOMAIN requests)
    /\ summary # NoSummary =>
          { requests[k].idx : k \in DOMAIN requests }
             = { i \in DOMAIN config.dns_config : config.dns_config[i].sync = "SomeTrue" }

\* C8 witness: the first update failed, the second was still sent
C8_Witness ==
    /\ summary # NoSummary
    /\ Len(requests) = 2
    /\ ~requests[1].ok
    /\ requests[2].ok

\* C9: the summary of a cycle is the one of the four messages that fits the
\* attempted updates, and it is the line that is logged.
C9_SummaryMessage ==
    summary # NoSummary =>
        LET T == Len(requests)
            S == Cardinality(OkRequests)
        IN  /\ T = 0 => summary.msg = "No records were changed"
            /\ (T > 0 /\ S = T) => summary.msg = "All records changed successfully!"
            /\ (S > 0 /\ S < T) =>
                  summary.msg = "Only {S} out of {T} records were changed successfully"
            /\ (T > 0 /\ S = 0) => summary.msg = "All record changes failed"
            /\ log.msg = summary.msg

\* C9 witness: a partial success
C9_Witness ==
    /\ summary.msg = "Only {S} out of {T} records were changed successfully"
    /\ Len(requests) = 2

SavedFile(cfg) == [state |-> "full", json |-> ToJson(cfg)]

\* C11 (as the specification states it): a save that fails, because the
\* old file cannot be deleted or the new one cannot be created, never ends
\* the process: the step that replaces the list goes on to the sync loop,
\* and when no file could be created the warning "Failed to save config"
\* is logged.
C11_PersistFailureNeverAborts ==
    [][Replaces =>
         /\ pc' = "loop_top"
         /\ stop' = ""
         /\ (file'.state = "none" => log' = Line("Failed to save config", "Warn"))]_vars

\* C12 (as the specification states it): every step leaves the stored
\* configuration as it was or replaces it by the complete new one; there
\* is never no file and never a partial one.
C12_FileNeverLostOrPartial ==
    [][\/ file' = file
       \/ file' = SavedFile(config')]_vars

(* --------------------------- termination ------------------------------- *)

Stopped == pc \in {"panicked", "exited"}

\* a request to the provider (or its answer) is in the state: the list
\* was asked for, or the sync loop was entered
RemoteCallMade ==
    \/ pc \in {"convert", "prompt", "loop_top", "resolve", "for"}
    \/ result # NoBody
    \/ reconciled > 0
    \/ requests # <<>>
    \/ ~wait_on_startup
    \/ log \notin {NoLine, Line("Attempting to retrieve DNS records", "Log")}

\* C13 (as the specification states it): the process ends only because a
\* home or configuration directory cannot be determined, or because the
\* configuration is incomplete (or missing) and there is no terminal.
C13_TerminatesOnlyForTwoReasons ==
    Stopped =>
        stop \in {"Can't run program without home directory",
                  "Couldn't convert home directory to string",
                  "Couldn't find cargo path",
                  "Couldn't get config path",
                  "There is no config file yet",
                  "Couldn't setup config because process is not running in a terminal"}

\* the configuration file holds no credentials, or there is no file
NoStoredCredentials ==
    \/ file.state = "none"
    \/ file.state = "full" /\ ~file.json.authentication.present

\* C14: when get_config finds no credentials (no file, or a file without
\* them) and there is no terminal, the process ends in that step, and
\* nothing was asked of the provider: no list request, no update, no
\* iteration of the loop; a process that has ended takes no step.
C14_HardStopOnIncompleteConfig ==
    /\ [][(pc = "load" /\ ~terminal /\ NoStoredCredentials) =>
            (Stopped' /\ ~RemoteCallMade')]_vars
    /\ [](pc \in {"start", "load"} => ~RemoteCallMade)
    /\ [][~Stopped]_vars

\* C14 witness: the process has exited because the stored configuration
\* has no credentials and there is no terminal
C14_Witness ==
    /\ pc = "exited"
    /\ ~terminal
    /\ file.state = "full"
    /\ ~file.json.authentication.present
    /\ stop = "Couldn't setup config because process is not running in a terminal"

NonEmpty(auth) ==
    auth.present /\ auth.email # "" /\ auth.api_key # "" /\ auth.zone_id # ""

\* C15 (as the specification states it): whenever the list is requested
\* or the sync loop runs, email, api_key and zone_id are non-empty.
C15_CredentialsNonEmpty ==
    (pc \in {"fetch", "convert", "prompt", "loop_top", "resolve", "for"})
        => NonEmpty(config.authentication)

(* --------------------------- type filter ------------------------------- *)

\* an element of another type than "A" (whose id can be read)
OtherType(e) == e.id.present /\ e.type.present /\ StripQuotes(e.type) # "A"

\* an element of type "A" with every field usable
WellFormedA(e) == ~Malformed(e) /\ StripQuotes(e.type) = "A"

\* C16: when a response is reconciled, no element of a type other than "A"
\* is in the new list (its id is not there, and every record of the list
\* has the type "A"), and the well-formed "A" elements of the same
\* response are all in it.
C16_TypeFiltering ==
    [][(Replaces /\ result.kind = "array") =>
         /\ \A k \in DOMAIN result.array :
               OtherType(result.array[k]) =>
                   StripQuotes(result.array[k].id) \notin IdsOf(config'.dns_config)
         /\ \A i \in DOMAIN config'.dns_config :
               config'.dns_config[i].record_type = "A"
         /\ \A k \in DOMAIN result.array :
               WellFormedA(result.array[k]) =>
                   StripQuotes(result.array[k].id) \in IdsOf(config'.dns_config)]_vars

\* C16 witness: a response with a CNAME element and an A element was
\* reconciled (the response is still in the state because the save
\* panicked): the list holds the A element only
C16_Witness ==
    /\ pc = "panicked"
    /\ reconciled = 1
    /\ result.kind = "array"
    /\ Len(result.array) = 2
    /\ OtherType(result.array[1])
    /\ WellFormedA(result.array[2])
    /\ IdsOf(config.dns_config) = {StripQuotes(result.array[2].id)}

(* ---------------------------- round trip ------------------------------ *)

\* the list get_incomplete_config reads from the file
LoadedList(f) == FromJson(f.json).dns_config

\* responses of at most one element, to reconcile a reloaded list with
ShortArrays == {<<>>} \cup { <<e>> : e \in ElemKinds }

\* C17: when the reconciled list has been saved, loading the file gives a
\* list with the same ids and, for every id, the same sync value; and
\* reconciling a response with the loaded list gives the same list as
\* reconciling it with the list in memory.
C17_RoundTrip ==
    [][(Replaces /\ file'.state = "full" /\ ~Stopped') =>
         LET loaded == LoadedList(file')
             memory == config'.dns_config
         IN  /\ Len(loaded) = Len(memory)
             /\ \A i \in DOMAIN memory :
                   loaded[i].id = memory[i].id /\ loaded[i].sync = memory[i].sync
             /\ \/ loaded = memory
                \/ \A a \in ShortArrays :
                      Annotate(ConvertArray(a), loaded) = Annotate(ConvertArray(a), memory)]_vars

\* C17 witness: a list with an undecided and an opted-in record has been
\* saved and the sync loop is about to start
C17_Witness ==
    /\ pc = "loop_top"
    /\ wait_on_startup
    /\ reconciled = 1
    /\ file = SavedFile(config)
    /\ \E i, j \in DOMAIN config.dns_config :
          config.dns_config[i].sync = "None" /\ config.dns_config[j].sync = "SomeTrue"

(* ---------------------------- the loop --------------------------------- *)

\* C18: the loop of process() has no exit: a step taken inside the loop
\* ends inside the loop; and when every call returns, the top of the loop
\* is always followed by the resolution of the IP, and the resolution by
\* the top of the loop again (the next iteration).
C18_LoopNeverEnds ==
    /\ [][InLoop => InLoop']_vars
    /\ (pc = "loop_top" ~> pc = "resolve")
    /\ (pc = "resolve" ~> pc = "loop_top")

\* C18 witness: an iteration that sent an update is over and the next
\* one has slept and is about to resolve the IP
C18_Witness ==
    /\ pc = "resolve"
    /\ slept > 0
    /\ ip # NoIp
    /\ requests = <<>>
    /\ \E i \in DOMAIN config.dns_config : ShouldSync(config.dns_config[i])

\* C19 (as the specification states it): the first iteration goes to the
\* resolution of the IP without a sleep; every other iteration sleeps
\* seconds_to_wait_per_restart seconds, once, and then resolves, whatever
\* the iteration before it did.
C19_SleepsPollInterval ==
    /\ [][(pc = "loop_top" /\ wait_on_startup) =>
            (pc' = "resolve" /\ slept' = 0)]_vars
    /\ [][(pc = "loop_top" /\ ~wait_on_startup) =>
            (pc' = "resolve" /\ slept' = config.seconds_to_wait_per_restart)]_vars
    /\ [](wait_on_startup => (ip = NoIp /\ summary = NoSummary /\ requests = <<>>))
    /\ [][~wait_on_startup => ~wait_on_startup']_vars

\* C20: the update requests of an iteration are sent one per step, each
\* with its outcome, for records of the list in the order of the list:
\* the positions in the log of the iteration strictly increase (so no
\* record has two outcomes) and lie before the record the loop is at.
C20_OneAtATimeInOrder ==
    /\ [](\A k \in DOMAIN requests :
            /\ requests[k].idx \in DOMAIN config.dns_config
            /\ requests[k].id = config.dns_config[requests[k].idx].id
            /\ requests[k].ok \in BOOLEAN
            /\ pc = "for" => requests[k].idx < idx)
    /\ [](\A k, l \in DOMAIN requests :
            k < l => requests[k].idx < requests[l].idx)
    /\ [][requests' # requests =>
            \/ requests' = <<>>
            \/ /\ Len(requests') = Len(requests) + 1
               /\ requests'[Len(requests')].idx = idx
               /\ idx' > idx]_vars

\* C20 witness: both records of the list were updated in this iteration,
\* the first one before the second
C20_Witness ==
    /\ pc = "for"
    /\ Len(requests) = 2
    /\ requests[1].idx = 1 /\ requests[1].ok
    /\ requests[2].idx = 2 /\ requests[2].ok
    /\ idx = 3

(* ------------------------ decisions and prompt ------------------------- *)

\* the positions the prompt is about
RefSet(refs) == { refs[k] : k \in DOMAIN refs }

\* C21: a fetched record whose id is not in the old list takes no decision
\* from the old list, whatever names and contents the old records have:
\* without a terminal it is stored with sync None, and in a terminal it
\* comes to the prompt with sync None, as one of the records to decide.
C21_NoLeakAcrossIds ==
    /\ [][(Replaces /\ result.kind = "array" /\ ~terminal) =>
            \A i \in DOMAIN config'.dns_config :
                config'.dns_config[i].id \notin IdsOf(config.dns_config)
                    => config'.dns_config[i].sync = "None"]_vars
    /\ [](pc = "prompt" =>
            \A i \in DOMAIN new_dns_records :
                new_dns_records[i].id \notin IdsOf(config.dns_config)
                    => (new_dns_records[i].sync = "None"
                        /\ i \in RefSet(new_record_references)))

\* C21 witness: without a terminal, the old list (still in the file, the
\* save panicked) had the opted-in record a with name n1 and content c1;
\* the fetched record b has the same name and content and is stored with
\* sync None
C21_Witness ==
    /\ pc = "panicked"
    /\ reconciled = 1
    /\ ~terminal
    /\ Len(file.json.dns_config.v) = 1
    /\ file.json.dns_config.v[1].id = "a"
    /\ file.json.dns_config.v[1].sync = "true"
    /\ file.json.dns_config.v[1].name = "n1"
    /\ file.json.dns_config.v[1].content = "c1"
    /\ Len(config.dns_config) = 1
    /\ config.dns_config[1].id = "b"
    /\ config.dns_config[1].name = "n1"
    /\ config.dns_config[1].content = "c1"
    /\ config.dns_config[1].sync = "None"

\* the old list gives the record of this id no decision
Undecided(id, old) == \A j \in DOMAIN old : old[j].id = id => old[j].sync = "None"

\* C22: when a response is merged, the prompt is shown exactly when a
\* fetched record has no decision and the process runs in a terminal;
\* otherwise the list is replaced in the same step, and the records
\* without a decision are stored with sync None.
C22_PromptOnlyWhenNeeded ==
    /\ [][(pc = "convert" /\ result.kind = "array") =>
            LET fetched == ConvertArray(result.array)
                needed == \E i \in DOMAIN fetched :
                              Undecided(fetched[i].id, config.dns_config)
            IN  /\ pc' = "prompt" <=> (needed /\ terminal)
                /\ pc' # "prompt" =>
                      /\ Replaces
                      /\ Len(config'.dns_config) = Len(fetched)
                      /\ \A i \in DOMAIN fetched :
                            Undecided(fetched[i].id, config.dns_config)
                                => config'.dns_config[i].sync = "None"]_vars
    /\ [](pc = "prompt" =>
            /\ terminal
            /\ new_record_references # <<>>
            /\ \A i \in RefSet(new_record_references) :
                  new_dns_records[i].sync = "None")

\* C22 witness: in a terminal, the prompt is shown for the new record b
\* while the record a has its decision from the old list
C22_Witness ==
    /\ pc = "prompt"
    /\ terminal
    /\ Len(new_dns_records) = 2
    /\ new_dns_records[1].id = "a" /\ new_dns_records[1].sync = "SomeFalse"
    /\ new_dns_records[2].id = "b" /\ new_dns_records[2].sync = "None"
    /\ new_record_references = <<2>>

(* ------------------------------ fetch ---------------------------------- *)

\* C23: the list and the file change only in a step that merges a
\* response whose body is JSON with a result array (the request went
\* through and the body holds the success text, or there would be no
\* body); a fetch that fails, and a body that is not JSON, has no result
\* or no array, leaves the list and the file as they are.
C23_ReplacedOnlyOnUsableResponse ==
    /\ [][(Replaces \/ config' # config \/ file' # file) =>
            (pc \in {"convert", "prompt"} /\ result.kind = "array")]_vars
    /\ [][(pc = "fetch" \/ (pc = "convert" /\ result.kind # "array")) =>
            (~Replaces /\ UNCHANGED <<config, file>> /\ pc' \in {"fetch", "convert"})]_vars

\* C23 witness: a body without "result" was received; the list and the
\* file are as they were and the fetch is about to be repeated
C23_Witness ==
    /\ pc = "fetch"
    /\ log.msg = "Getting result from response failed"
    /\ reconciled = 0
    /\ config.dns_config # <<>>
    /\ file = SavedFile(config)

\* the elements of type "A" of a response, in the order of the response
TypeAElements(array) == SelectSeq(array, LAMBDA e : StripQuotes(e.type) = "A")

\* C24: when a response all of whose elements are well formed is
\* reconciled, the new list has one record for each element of type "A",
\* in the order of the response, with the id, name, content and ttl of
\* the element, whether the old list had the id or not, and nothing else.
C24_ListIsFetchedList ==
    [][(Replaces /\ result.kind = "array"
          /\ \A k \in DOMAIN result.array : ~Malformed(result.array[k])) =>
         LET fetched == TypeAElements(result.array)
             list == config'.dns_config
         IN  /\ Len(list) = Len(fetched)
             /\ \A i \in DOMAIN list :
                   /\ list[i].id = StripQuotes(fetched[i].id)
                   /\ list[i].name = StripQuotes(fetched[i].name)
                   /\ list[i].content = StripQuotes(fetched[i].content)
                   /\ list[i].ttl = ParseI32(StripQuotes(fetched[i].ttl)).val
                   /\ list[i].record_type = "A"]_vars

\* C24 witness: the response held b and then a; the old list (still in
\* the file, the save panicked) held a only; the new list is b, a
C24_Witness ==
    /\ pc = "panicked"
    /\ reconciled = 1
    /\ result.kind = "array"
    /\ Len(result.array) = 2
    /\ \A k \in DOMAIN result.array : WellFormedA(result.array[k])
    /\ IdsOf(LoadedList(file)) = {"a"}
    /\ Len(config.dns_config) = 2
    /\ config.dns_config[1].id = "b"
    /\ config.dns_config[2].id = "a"

(* ------------------------------ updater -------------------------------- *)

\* C25: a call of set_ip adds one request to the log of the iteration; it
\* is a success exactly when the request went through, the body was read
\* and the text holds the success indicator; otherwise it is the one
\* failure that belongs to the first of the three that is missing, which
\* the line logged for it shows.
C25_OneRequestOneOutcome ==
    [][(pc = "for" /\ requests' # requests) =>
         LET last == requests'[Len(requests')]
             r == response'
         IN  /\ Len(requests') = Len(requests) + 1
             /\ SubSeq(requests', 1, Len(requests)) = requests
             /\ r \in PatchResponses
             /\ last.ok <=> (r.transport /\ r.readable /\ r.success)
             /\ last.ok => log' = Line("Successfully set ip", "Log")
             /\ ~r.transport => log' = Line("Retrying...", "Error")
             /\ (r.transport /\ ~r.readable) =>
                   log' = Line("Failed to convert cloudflare's result into a string, retrying...", "Warn")
             /\ (r.transport /\ r.readable /\ ~r.success) =>
                   log' = Line("The cloudflare request was unsuccessful", "Warn")]_vars

\* C25 witness: the provider answered a PATCH with a body that does not
\* hold the success indicator, and the request is logged as failed
C25_Witness ==
    /\ pc = "for"
    /\ requests # <<>>
    /\ ~requests[Len(requests)].ok
    /\ response = [transport |-> TRUE, readable |-> TRUE, success |-> FALSE]
    /\ log = Line("The cloudflare request was unsuccessful", "Warn")

(* --------------------------- completion -------------------------------- *)

\* C26: when get_config has read a well-formed file, the configuration
\* counts as complete (no prompt, no exit for want of credentials) exactly
\* when the file has the authentication object; and with or without it,
\* the poll interval is the stored one or 300 when the file has none, and
\* the list is the stored one or the empty list when the file has none.
C26_ConfigCompletion ==
    [][(pc = "load" /\ file.state = "full"
          /\ stop' \notin {"Couldn't find cargo path", "Couldn't get config path",
                           "Failed to get config"}) =>
         /\ pc' \in {"credentials", "exited"} <=> ~file.json.authentication.present
         /\ pc' \in {"credentials", "fetch"} =>
               /\ config'.seconds_to_wait_per_restart =
                     (IF file.json.seconds_to_wait_per_restart.present
                      THEN file.json.seconds_to_wait_per_restart.v ELSE 300)
               /\ file.json.dns_config.present =>
                     /\ Len(config'.dns_config) = Len(file.json.dns_config.v)
                     /\ \A i \in DOMAIN config'.dns_config :
                           config'.dns_config[i].id = file.json.dns_config.v[i].id
               /\ ~file.json.dns_config.present => config'.dns_config = <<>>
               /\ config'.authentication.present
                     <=> (file.json.authentication.present /\ pc' = "fetch")]_vars

\* C26 witness: the file has no credentials, no poll interval and no
\* list; the prompt for the credentials waits, with 300 seconds and the
\* empty list
C26_Witness ==
    /\ pc = "credentials"
    /\ file.state = "full"
    /\ ~file.json.authentication.present
    /\ ~file.json.seconds_to_wait_per_restart.present
    /\ ~file.json.dns_config.present
    /\ config.seconds_to_wait_per_restart = 300
    /\ config.dns_config = <<>>

(* ------------------------------ summary -------------------------------- *)

\* the records of the list that are opted in
OptedIn == { i \in DOMAIN config.dns_config : ShouldSync(config.dns_config[i]) }

\* C27 (as the specification states it): in the summary of a partial
\* success S is the number of the requests of the iteration that
\* succeeded, and T the number of the records an update was attempted
\* for, the opted-in ones.
C27_PartialSummaryCounts ==
    (pc = "loop_top"
     /\ summary.msg = "Only {S} out of {T} records were changed successfully") =>
        /\ summary.s = Cardinality(OkRequests)
        /\ summary.t = Len(requests)
        /\ summary.t = Cardinality(OptedIn)

(* ------------------------ the prompt's answer -------------------------- *)

\* the id of record i of the new list is one of the checked entries
ChosenId(i, selections) ==
    \E k \in DOMAIN selections :
        new_dns_records[new_record_references[selections[k]]].id = new_dns_records[i].id

\* the step replaces the list after the prompt was answered
PromptReplaces ==
    /\ pc = "prompt"
    /\ pc' = "loop_top" \/ stop' = "Failed to delete old config file"

\* C28: when the prompt is answered, whatever the selection that was made,
\* a record that needed a decision is Some(true) in the new list exactly if
\* its id was checked, and a record that had its decision before the
\* prompt is stored as it was.
C28_PromptDecides ==
    [][PromptReplaces =>
         \A selections \in SelectionsOf(Len(new_record_references)) :
            config'.dns_config = ApplySelections(new_dns_records, new_record_references,
                                                 selections) =>
               /\ Len(config'.dns_config) = Len(new_dns_records)
               /\ \A i \in DOMAIN new_dns_records :
                     IF i \in RefSet(new_record_references)
                     THEN config'.dns_config[i].sync = "SomeTrue"
                             <=> ChosenId(i, selections)
                     ELSE config'.dns_config[i] = new_dns_records[i]]_vars

\* the prompt was answered for a list of a decided and an undecided record:
\* the undecided one was checked, the other one is as it was
C28_Witness ==
    /\ pc = "panicked"
    /\ stop = "Failed to delete old config file"
    /\ Len(new_dns_records) = 2
    /\ Len(new_record_references) = 1
    /\ \A i \in DOMAIN new_dns_records :
          IF i \in RefSet(new_record_references)
          THEN new_dns_records[i].sync = "None" /\ config.dns_config[i].sync = "SomeTrue"
          ELSE new_dns_records[i].sync = "SomeFalse"
               /\ config.dns_config[i] = new_dns_records[i]

(* ---------------------- the save of the new list ----------------------- *)

\* the step is a fetch attempt that failed (a `continue` of lines 748-791)
FetchAttemptFails == pc \in {"fetch", "convert"} /\ pc' = "fetch"

\* the step shows one call of save_to_json for the new configuration, with
\* this outcome, on the file as it was before the step
SavedOnce(outcome) ==
    LET saved == save_to_json(config', file, outcome)
    IN  /\ file' = saved.file
        /\ CASE saved.ret = "panic" ->
                    pc' = "panicked" /\ stop' = "Failed to delete old config file"
             [] saved.ret = "Ok" ->
                    pc' = "loop_top" /\ log' = Line("Saved config successfully", "Log")
             [] OTHER ->
                    pc' = "loop_top" /\ log' = Line("Failed to save config", "Warn")

\* C29: a step that replaces the record list makes one save attempt of
\* the new configuration, in the same step of update_dns_list and so
\* before it returns, and sends no update request; a step that sends an
\* update request replaces and saves nothing; a failed fetch attempt
\* leaves the file and the configuration as they were.
C29_OneSavePerReplacement ==
    [][/\ Replaces =>
            /\ \E outcome \in SaveOutcomes(file) : SavedOnce(outcome)
            /\ requests' = requests
       /\ requests' # requests => (file' = file /\ config' = config)
       /\ FetchAttemptFails => (file' = file /\ config' = config)]_vars

\* the list was replaced by a list with a record and the save went through:
\* the file holds the new configuration, and no request was sent yet
C29_Witness ==
    /\ pc = "loop_top"
    /\ reconciled = 1
    /\ config.dns_config # <<>>
    /\ file = [state |-> "full", json |-> ToJson(config)]
    /\ log = Line("Saved config successfully", "Log")
    /\ requests = <<>>

(* -------------------- the end of the reconciliation -------------------- *)

\* the fetch has given a response with a result array
UsableResponse == pc = "convert" /\ result.kind = "array"

\* C30 (as the specification states it): once the fetch has given a usable
\* response the reconciliation returns and the loop of the update pass is
\* entered; and as long as the list was not replaced and the process
\* runs, the reconciliation has not returned, no update request was sent
\* and no summary was logged.
C30_ReconciliationTerminates ==
    /\ UsableResponse ~> InLoop
    /\ []((reconciled = 0 /\ stop = "") =>
             /\ InReconciler
             /\ requests = <<>>
             /\ summary = NoSummary)

(* --------------------- the loop and the configuration ------------------ *)

\* the step is one of the sync process
ProcessSteps == <<pc, loopVars, log>>' # <<pc, loopVars, log>>

\* C31: in the loop every step leaves the configuration in memory (record
\* list, credentials, poll interval) as it is; a step of the sync process
\* leaves the file as it is; and whatever a configure command has written
\* to the file meanwhile, a request is sent for the record the list in
\* memory has at the position of the pass, which is opted in there.
C31_LoopLeavesConfig ==
    [][InLoop =>
         /\ config' = config
         /\ ProcessSteps => file' = file
         /\ Len(requests') > Len(requests) =>
               /\ Len(requests') = Len(requests) + 1
               /\ idx \in DOMAIN config.dns_config
               /\ ShouldSync(config.dns_config[idx])
               /\ requests'[Len(requests')].id = config.dns_config[idx].id]_vars

\* a request was sent for a record that the file, rewritten by a configure
\* command, holds as not to be synced
C31_Witness ==
    /\ pc = "for"
    /\ requests # <<>>
    /\ file.state = "full"
    /\ file.json.dns_config.present
    /\ LET r == requests[Len(requests)]
       IN  /\ r.idx \in DOMAIN file.json.dns_config.v
           /\ file.json.dns_config.v[r.idx].id = r.id
           /\ file.json.dns_config.v[r.idx].sync = "false"
           /\ config.dns_config[r.idx].sync = "SomeTrue"

(* --------------------------- the update pass --------------------------- *)

\* the requests of the iteration for the record at position i
RequestsOf(i) == { k \in DOMAIN requests : requests[k].idx = i }

\* C32: an IP that is resolved starts the pass over the list, whichever
\* address it is; a request carries the IP of the iteration; and when the
\* pass has ended every record with Some(true) has exactly one request,
\* the other records have none, and the successes counted and the failed
\* requests together are as many as the records with Some(true).
C32_OneRequestPerOptedIn ==
    /\ [][(pc = "resolve" /\ ip' # NoIp) => (pc' = "for" /\ idx' = 1)]_vars
    /\ [][Len(requests') > Len(requests) =>
            (ip # NoIp /\ requests'[Len(requests')].content = ip)]_vars
    /\ [][(pc = "for" /\ pc' = "loop_top") =>
            /\ \A i \in DOMAIN config.dns_config :
                  Cardinality(RequestsOf(i)) = IF ShouldSync(config.dns_config[i])
                                               THEN 1 ELSE 0
            /\ \A k \in DOMAIN requests : requests[k].content = ip
            /\ records_changed_successfully = Cardinality(OkRequests)
            /\ failures <=> (DOMAIN requests \ OkRequests # {})
            /\ records_changed_successfully
                  + Cardinality(DOMAIN requests \ OkRequests)
                  = Cardinality(OptedIn)]_vars

\* a later iteration has ended: two of the three records are opted in and
\* have their request, with the address the first of them already has
C32_Witness ==
    /\ pc = "loop_top"
    /\ summary # NoSummary
    /\ slept > 0
    /\ Len(config.dns_config) = 3
    /\ Cardinality(OptedIn) = 2
    /\ Len(requests) = 2
    /\ requests[1].content = config.dns_config[requests[1].idx].content
    /\ requests[2].content = ip

(* ---------------------------- the summary ----------------------------- *)

\* C33: the summary of an iteration is logged in one step, when none was
\* logged yet in the iteration and every record of the list was passed,
\* that is after the last update attempt; the pass is left by no other
\* step, and it is left; the summary stands until the next iteration
\* begins with its sleep; and while the IP is resolved or was not
\* resolved there is no summary.
C33_OneSummaryPerResolvedIteration ==
    /\ [][summary' # summary =>
            \/ /\ summary = NoSummary
               /\ pc = "for" /\ idx > Len(config.dns_config)
               /\ pc' = "loop_top"
               /\ log'.msg = summary'.msg
               /\ requests' = requests
            \/ /\ summary' = NoSummary
               /\ pc = "loop_top" /\ pc' = "resolve"
               /\ ~wait_on_startup']_vars
    /\ [][(pc = "for" /\ pc' # "for") =>
            (pc' = "loop_top" /\ summary' # NoSummary)]_vars
    /\ [][(pc = "loop_top" /\ summary # NoSummary /\ pc' # pc) =>
            slept' = SleepSeconds(config)]_vars
    /\ [](pc \in {"resolve", "for"} => summary = NoSummary)
    /\ []((pc = "loop_top" /\ ip = NoIp) => summary = NoSummary)
    /\ (pc = "for") ~> (pc = "loop_top" /\ summary # NoSummary)

\* an iteration with two update attempts has ended and its summary is the
\* last line logged
C33_Witness ==
    /\ pc = "loop_top"
    /\ summary # NoSummary
    /\ log.msg = summary.msg
    /\ Len(requests) = 2
    /\ slept > 0

(* ------------------ the records menu of configure ---------------------- *)

\* the step that ends dns_config_selection with the main menu
DnsMenuCompletes == Returned /\ pc' = "main_menu"

\* C34 (as the specification states it): when the menu of the records has
\* completed every record of the list has Some(true) or Some(false);
\* whatever the selection that was made, a record has Some(true) exactly
\* if it was checked, so an earlier Some(true) of an unchecked record is
\* Some(false) now; nothing else of the records has changed; and the file
\* holds this configuration when the main menu is shown again.
C34_DnsMenuStoresChoice ==
    [][DnsMenuCompletes =>
         /\ Len(config'.dns_config) = Len(config.dns_config)
         /\ \A i \in DOMAIN config.dns_config :
               /\ config'.dns_config[i].sync \in {"SomeTrue", "SomeFalse"}
               /\ [config'.dns_config[i] EXCEPT !.sync = config.dns_config[i].sync]
                     = config.dns_config[i]
         /\ \A selections \in SelectionsOf(Len(config.dns_config)) :
               config'.dns_config = SelectRecords(config.dns_config, selections) =>
                  \A i \in DOMAIN config.dns_config :
                     config'.dns_config[i].sync = "SomeTrue"
                        <=> \E k \in DOMAIN selections : selections[k] = i
         /\ file' = SavedFile(config')]_vars

====
